---- MODULE Spec2Model ----
(***************************************************************************)
(* Anisotropic linear elasticity (src/ani_elasticity.py).                  *)
(*                                                                         *)
(* linear_stress_anisotropic(C) closes over a stiffness matrix C and       *)
(* returns stress_strain_relation(T); linear_elasticity_anisotropic(C)     *)
(* wraps it into the bilinear-form callback weakform(u, v, w).             *)
(*                                                                         *)
(* Arrays are functions over 0..n-1, as numpy indexes them.  All numbers   *)
(* are integers: the example stiffness matrix is carried scaled by 10 and  *)
(* diag(1,1,1,0.5,0.5,0.5) scaled by 2, so that every product is exact.    *)
(* Each evaluation is a call with its own frame of locals; a frame is      *)
(* indexed by the evaluator (thread) that made the call.                   *)
(***************************************************************************)
EXTENDS Integers, Sequences, FiniteSets

VARIABLES
    C,              \* the captured stiffness matrix (closure cell, shared)
    fn,             \* fn[t]: the callable thread t invoked: "stress" | "weakform"
    u, v, w,        \* weakform's arguments: trial field, test field, context
    T,              \* stress_strain_relation's parameter
    strain_vector,  \* local of stress_strain_relation (line 21)
    stress_vector,  \* local of stress_strain_relation (line 30)
    stress_tensor,  \* local of stress_strain_relation (line 32)
    ret,            \* the value returned to the caller
    raised,         \* the exception that ended the call, or "none"
    pc,             \* the statement each call executes next
    lin             \* how the caller formed T: T = a*T1 + b*T2 (lin.on), unused otherwise

vars == <<C, fn, u, v, w, T, strain_vector, stress_vector, stress_tensor,
          ret, raised, pc, lin>>

(***************************************************************************)
(* Bounds of the model.                                                    *)
(***************************************************************************)
\* entries of the exhaustively enumerated symmetric tensors lie in -MaxT..MaxT
MaxT == 1
\* the scalars a, b of a linear combination lie in -MaxA..MaxA
MaxA == 2
\* number of dense (unsymmetric) probe matrices and tensors beyond the first
MaxProbe == 1
\* number of concurrent evaluations sharing one captured C
NThreads == 2
\* malformed shapes: each dimension is off by at most ShapeSlack
ShapeSlack == 1

NoValue == <<>>

(***************************************************************************)
(* numpy arrays.                                                           *)
(***************************************************************************)
\* np.array([[...], ...]): the nested literal as a 0-based 2-D array
Array2(rows) ==
    [i \in 0..(Len(rows) - 1) |->
        [j \in 0..(Len(rows[i + 1]) - 1) |-> rows[i + 1][j + 1]]]

\* np.array([...]): the literal as a 0-based 1-D array
Array1(xs) == [i \in 0..(Len(xs) - 1) |-> xs[i + 1]]

\* ndarray.shape of a 2-D array
NRows(M) == Cardinality(DOMAIN M)
NCols(M) == IF NRows(M) = 0 THEN 0 ELSE Cardinality(DOMAIN M[0])

\* M[i, j] is inside the array (no IndexError)
InBounds(M, i, j) == i \in DOMAIN M /\ j \in DOMAIN M[i]

RECURSIVE SumTo(_, _)
\* f[0] + ... + f[n-1]
SumTo(f, n) == IF n = 0 THEN 0 ELSE f[n - 1] + SumTo(f, n - 1)

\* x @ M typed for M @ x: the vector multiplies the matrix from the left
MatVecProductTransposed(M, x) ==
    [i \in DOMAIN M |-> SumTo([j \in DOMAIN x |-> M[j][i] * x[j]], Cardinality(DOMAIN x))]

\* M @ x for a 2-D M and a 1-D x of matching inner dimension
MatVecProduct(M, x) ==
    [i \in DOMAIN M |-> SumTo([j \in DOMAIN x |-> M[i][j] * x[j]], Cardinality(DOMAIN x))]

\* matmul raises ValueError unless M's column count equals len(x)
MatVecDefined(M, x) == NCols(M) = Cardinality(DOMAIN x)

(***************************************************************************)
(* skfem.helpers                                                           *)
(***************************************************************************)
\* sym_grad(u) = .5 * (u.grad + transpose(u.grad)); the fields of this model
\* carry gradients for which the halves are exact
sym_grad(f) ==
    [i \in 0..2 |-> [j \in 0..2 |-> (f.grad[i][j] + f.grad[j][i]) \div 2]]

\* ddot(A, B) = einsum('ij,ij', A, B)
ddot(A, B) ==
    SumTo([k \in 0..8 |-> A[k \div 3][k % 3] * B[k \div 3][k % 3]], 9)

(***************************************************************************)
(* stress_strain_relation, statement by statement.                         *)
(***************************************************************************)
\* lines 21-28, with the shear strains not doubled (tensorial strain)
StrainVectorTensorial(X) ==
    Array1(<<X[0][0], X[1][1], X[2][2], X[1][2], X[0][2], X[0][1]>>)

\* lines 21-28, with the shear components in the order xy, xz, yz
StrainVectorReordered(X) ==
    Array1(<<X[0][0], X[1][1], X[2][2], 2 * X[0][1], 2 * X[0][2], 2 * X[1][2]>>)

\* lines 21-28, with 2 + T[1, 2] typed for 2 * T[1, 2]
StrainVectorOffset(X) ==
    Array1(<<X[0][0], X[1][1], X[2][2], 2 + X[1][2], 2 * X[0][2], 2 * X[0][1]>>)

\* lines 21-28: the 3x3 strain tensor as a Voigt 6-vector
StrainVector(X) ==
    Array1(<<X[0][0], X[1][1], X[2][2], 2 * X[1][2], 2 * X[0][2], 2 * X[0][1]>>)

\* the six reads of lines 22-27 are all inside T
StrainVectorDefined(X) ==
    /\ InBounds(X, 0, 0) /\ InBounds(X, 1, 1) /\ InBounds(X, 2, 2)
    /\ InBounds(X, 1, 2) /\ InBounds(X, 0, 2) /\ InBounds(X, 0, 1)

\* lines 32-36, with the last row typed [s[3], s[4], s[2]]
StressTensorRowSlip(s) ==
    Array2(<< <<s[0], s[5], s[4]>>,
              <<s[5], s[1], s[3]>>,
              <<s[3], s[4], s[2]>> >>)

\* lines 32-36, with the normal stresses yy and zz exchanged
StressTensorDiagSlip(s) ==
    Array2(<< <<s[0], s[5], s[4]>>,
              <<s[5], s[2], s[3]>>,
              <<s[4], s[3], s[1]>> >>)

\* lines 32-36, with the shear stresses negated
StressTensorNegShear(s) ==
    Array2(<< <<s[0], -s[5], -s[4]>>,
              <<-s[5], s[1], -s[3]>>,
              <<-s[4], -s[3], s[2]>> >>)

\* lines 32-36: the Voigt 6-vector as a 3x3 stress tensor
StressTensor(s) ==
    Array2(<< <<s[0], s[5], s[4]>>,
              <<s[5], s[1], s[3]>>,
              <<s[4], s[3], s[2]>> >>)

\* the reads stress_vector[0..5] of lines 33-35 are all inside the vector
StressTensorDefined(s) == \A k \in 0..5 : k \in DOMAIN s

\* the function linear_stress_anisotropic(K) returns, applied to X
stress_strain_relation(K, X) == StressTensor(MatVecProduct(K, StrainVector(X)))

(***************************************************************************)
(* Steps of one call made by thread t.                                     *)
(***************************************************************************)
Raise(t, exc) ==
    /\ raised' = [raised EXCEPT ![t] = exc]
    /\ pc' = [pc EXCEPT ![t] = "error"]

\* line 58, first half, with the stress function given the test gradient
WeakformOnTest(t) ==
    /\ pc[t] = "weakform"
    /\ T' = [T EXCEPT ![t] = sym_grad(v[t])]
    /\ pc' = [pc EXCEPT ![t] = "strain"]
    /\ UNCHANGED <<C, fn, u, v, w, strain_vector, stress_vector, stress_tensor,
                   ret, raised, lin>>

\* line 58, first half: stress_function(sym_grad(u)) is called
Weakform(t) ==
    /\ pc[t] = "weakform"
    /\ T' = [T EXCEPT ![t] = sym_grad(u[t])]
    /\ pc' = [pc EXCEPT ![t] = "strain"]
    /\ UNCHANGED <<C, fn, u, v, w, strain_vector, stress_vector, stress_tensor,
                   ret, raised, lin>>

\* lines 21-28, with strain_vector a module-level buffer that every call shares
BuildStrainVectorShared(t) ==
    /\ pc[t] = "strain"
    /\ IF StrainVectorDefined(T[t])
       THEN /\ strain_vector' = [s \in DOMAIN strain_vector |-> StrainVector(T[t])]
            /\ pc' = [pc EXCEPT ![t] = "matvec"]
            /\ UNCHANGED raised
       ELSE /\ Raise(t, "IndexError")
            /\ UNCHANGED strain_vector
    /\ UNCHANGED <<C, fn, u, v, w, T, stress_vector, stress_tensor, ret, lin>>

\* lines 21-28
BuildStrainVector(t) ==
    /\ pc[t] = "strain"
    /\ IF StrainVectorDefined(T[t])
       THEN /\ strain_vector' = [strain_vector EXCEPT ![t] = StrainVector(T[t])]
            /\ pc' = [pc EXCEPT ![t] = "matvec"]
            /\ UNCHANGED raised
       ELSE /\ Raise(t, "IndexError")
            /\ UNCHANGED strain_vector
    /\ UNCHANGED <<C, fn, u, v, w, T, stress_vector, stress_tensor, ret, lin>>

\* line 30
MatVec(t) ==
    /\ pc[t] = "matvec"
    /\ IF MatVecDefined(C, strain_vector[t])
       THEN /\ stress_vector' =
                  [stress_vector EXCEPT ![t] = MatVecProduct(C, strain_vector[t])]
            /\ pc' = [pc EXCEPT ![t] = "tensor"]
            /\ UNCHANGED raised
       ELSE /\ Raise(t, "ValueError")
            /\ UNCHANGED stress_vector
    /\ UNCHANGED <<C, fn, u, v, w, T, strain_vector, stress_tensor, ret, lin>>

\* lines 32-37: the tensor is built and returned, to the caller of the stress
\* function or into weakform's ddot
BuildStressTensor(t) ==
    /\ pc[t] = "tensor"
    /\ IF StressTensorDefined(stress_vector[t])
       THEN /\ stress_tensor' =
                  [stress_tensor EXCEPT ![t] = StressTensor(stress_vector[t])]
            /\ IF fn[t] = "stress"
               THEN /\ ret' = [ret EXCEPT ![t] = StressTensor(stress_vector[t])]
                    /\ pc' = [pc EXCEPT ![t] = "done"]
               ELSE /\ pc' = [pc EXCEPT ![t] = "ddot"]
                    /\ UNCHANGED ret
            /\ UNCHANGED raised
       ELSE /\ Raise(t, "IndexError")
            /\ UNCHANGED <<stress_tensor, ret>>
    /\ UNCHANGED <<C, fn, u, v, w, T, strain_vector, stress_vector, lin>>

\* line 58, second half: ddot(<stress>, sym_grad(v)) is returned
Ddot(t) ==
    /\ pc[t] = "ddot"
    /\ ret' = [ret EXCEPT ![t] = ddot(stress_tensor[t], sym_grad(v[t]))]
    /\ pc' = [pc EXCEPT ![t] = "done"]
    /\ UNCHANGED <<C, fn, u, v, w, T, strain_vector, stress_vector, stress_tensor,
                   raised, lin>>

(***************************************************************************)
(* Inputs: stiffness matrices.                                             *)
(***************************************************************************)
\* lines 64-71, every entry times 10
ExampleC ==
    Array2(<< <<10, 2, 3, 0, 0, 0>>,
              << 2, 10, 3, 0, 0, 0>>,
              << 3, 3, 10, 0, 0, 0>>,
              << 0, 0, 0, 5, 0, 0>>,
              << 0, 0, 0, 0, 5, 0>>,
              << 0, 0, 0, 0, 0, 5>> >>)

\* diag(1, 1, 1, 0.5, 0.5, 0.5), every entry times 2
VoigtIdentityC ==
    [i \in 0..5 |-> [j \in 0..5 |-> IF i # j THEN 0 ELSE IF i < 3 THEN 2 ELSE 1]]

\* diagonal matrices with distinct entries, zero and negative ones among them
DiagC(k) ==
    [i \in 0..5 |-> [j \in 0..5 |-> IF i # j THEN 0 ELSE (((k + 2) * i + 1) % 7) - 2]]

\* the matrix whose only nonzero entry is a 1 at (r, c)
UnitC(r, c) ==
    [i \in 0..5 |-> [j \in 0..5 |-> IF i = r /\ j = c THEN 1 ELSE 0]]

\* dense unsymmetric matrices
DenseC(k) ==
    [i \in 0..5 |-> [j \in 0..5 |-> (((k + 2) * i + 3 * j + i * j) % 5) - 2]]

DiagonalStiffness == {VoigtIdentityC} \cup {DiagC(k) : k \in 0..MaxProbe}

DenseStiffness == {ExampleC} \cup {DenseC(k) : k \in 0..MaxProbe}

PositiveDefiniteStiffness == {ExampleC, VoigtIdentityC}

Stiffness ==
    DiagonalStiffness \cup DenseStiffness \cup {UnitC(r, c) : r \in 0..5, c \in 0..5}

(***************************************************************************)
(* Inputs: tensors, fields, contexts.                                      *)
(***************************************************************************)
\* the tensor whose only nonzero entry is x at (r, c)
UnitT(r, c, x) ==
    [i \in 0..2 |-> [j \in 0..2 |-> IF i = r /\ j = c THEN x ELSE 0]]

\* dense unsymmetric tensors, all nine entries distinct
DenseT(k) ==
    [i \in 0..2 |-> [j \in 0..2 |-> (k + 1) * (3 * i + j + 1) - 4]]

\* the symmetric tensor with independent components e (xx, yy, zz, yz, xz, xy)
SymT(e) ==
    [i \in 0..2 |-> [j \in 0..2 |->
        IF i = j THEN e[i] ELSE e[6 - i - j]]]

Scale(a, X) == [i \in 0..2 |-> [j \in 0..2 |-> a * X[i][j]]]

Plus(X, Y) == [i \in 0..2 |-> [j \in 0..2 |-> X[i][j] + Y[i][j]]]

Transposed(X) == [i \in 0..2 |-> [j \in 0..2 |-> X[j][i]]]

\* every symmetric tensor with entries in -MaxT..MaxT
SymTensors == {SymT(e) : e \in [0..5 -> (-MaxT)..MaxT]}

\* unsymmetric in general: one-entry tensors and dense ones
Tensors ==
    {UnitT(r, c, x) : r \in 0..2, c \in 0..2, x \in (-MaxT)..MaxT}
        \cup {DenseT(k) : k \in 0..MaxProbe}

\* symmetric tensors a linear combination is formed of
LinTensors ==
    {Plus(UnitT(r, c, 1), UnitT(c, r, 1)) : r \in 0..2, c \in 0..2}
        \cup {Plus(DenseT(k), Transposed(DenseT(k))) : k \in 0..MaxProbe}

\* a field with symmetric gradient E: its gradient is upper triangular
FieldOf(E) ==
    [grad |-> [i \in 0..2 |-> [j \in 0..2 |->
        IF i = j THEN E[i][j] ELSE IF i < j THEN 2 * E[i][j] ELSE 0]]]

\* every symmetric gradient with entries in -MaxT..MaxT is that of a field here
FullFields == {FieldOf(E) : E \in SymTensors}

\* fields with unsymmetric gradients (even entries: sym_grad is exact)
ProbeFields ==
    {[grad |-> Scale(2, X)] : X \in {UnitT(r, c, 1) : r \in 0..2, c \in 0..2}}
        \cup {[grad |-> Scale(2, DenseT(k))] : k \in 0..MaxProbe}

\* the assembler's context argument w
Contexts == {[h |-> 0], [h |-> 1]}

(***************************************************************************)
(* Calls.                                                                  *)
(***************************************************************************)
StressCall(X) ==
    [fn |-> "stress", T |-> X, u |-> NoValue, v |-> NoValue, w |-> NoValue]

WeakformCall(a, b, c) ==
    [fn |-> "weakform", T |-> NoValue, u |-> a, v |-> b, w |-> c]

NoLin == [on |-> FALSE, a |-> 0, b |-> 0, T1 |-> NoValue, T2 |-> NoValue]

\* linear_stress_anisotropic(C0) / linear_elasticity_anisotropic(C0) have
\* returned their closures, and each thread of calls has invoked one
Start(C0, calls, l) ==
    /\ C = C0
    /\ fn = [t \in DOMAIN calls |-> calls[t].fn]
    /\ u = [t \in DOMAIN calls |-> calls[t].u]
    /\ v = [t \in DOMAIN calls |-> calls[t].v]
    /\ w = [t \in DOMAIN calls |-> calls[t].w]
    /\ T = [t \in DOMAIN calls |-> calls[t].T]
    /\ strain_vector = [t \in DOMAIN calls |-> NoValue]
    /\ stress_vector = [t \in DOMAIN calls |-> NoValue]
    /\ stress_tensor = [t \in DOMAIN calls |-> NoValue]
    /\ ret = [t \in DOMAIN calls |-> NoValue]
    /\ raised = [t \in DOMAIN calls |-> "none"]
    /\ pc = [t \in DOMAIN calls |->
                IF calls[t].fn = "stress" THEN "strain" ELSE "weakform"]
    /\ lin = l

Single(call) == [t \in {1} |-> call]

\* any stiffness matrix, any (unsymmetric) tensor
InitGeneral ==
    \E C0 \in Stiffness, X \in Tensors : Start(C0, Single(StressCall(X)), NoLin)

\* the Voigt identity, every symmetric tensor
InitRoundTrip ==
    \E X \in SymTensors : Start(VoigtIdentityC, Single(StressCall(X)), NoLin)

\* the stress of a linear combination of symmetric tensors
InitLinear ==
    \E C0 \in DenseStiffness, a \in (-MaxA)..MaxA, b \in (-MaxA)..MaxA,
       X1 \in LinTensors, X2 \in LinTensors :
        Start(C0, Single(StressCall(Plus(Scale(a, X1), Scale(b, X2)))),
              [on |-> TRUE, a |-> a, b |-> b, T1 |-> X1, T2 |-> X2])

\* the weak form on unrelated trial and test fields
InitWeak ==
    \E C0 \in DenseStiffness, a \in ProbeFields, b \in ProbeFields, c \in Contexts :
        Start(C0, Single(WeakformCall(a, b, c)), NoLin)

\* the weak form with trial = test, positive-definite C
InitEnergy ==
    \E C0 \in PositiveDefiniteStiffness, a \in FullFields, c \in Contexts :
        Start(C0, Single(WeakformCall(a, a, c)), NoLin)

Init == InitGeneral \/ InitRoundTrip \/ InitLinear \/ InitWeak \/ InitEnergy

Next ==
    \/ \E t \in DOMAIN pc : Weakform(t)
    \/ \E t \in DOMAIN pc : BuildStrainVector(t)
    \/ \E t \in DOMAIN pc : MatVec(t)
    \/ \E t \in DOMAIN pc : BuildStressTensor(t)
    \/ \E t \in DOMAIN pc : Ddot(t)

\* one evaluation at a time, well-shaped inputs
Spec == Init /\ [][Next]_vars

(***************************************************************************)
(* Concurrent evaluations: NThreads calls share one captured C and         *)
(* interleave statement by statement.                                      *)
(***************************************************************************)
ConcurrentCalls ==
    {StressCall(DenseT(0)), StressCall(UnitT(1, 2, 1))}
        \cup {WeakformCall([grad |-> Scale(2, DenseT(k))],
                           [grad |-> Scale(2, UnitT(0, 1, 1))], [h |-> 0])
                : k \in 0..MaxProbe}

InitConcurrent ==
    \E C0 \in {ExampleC, DenseC(0)}, calls \in [1..NThreads -> ConcurrentCalls] :
        Start(C0, calls, NoLin)

SpecConcurrent == InitConcurrent /\ [][Next]_vars

(***************************************************************************)
(* Malformed shapes: C is m x n and T is r x c, each dimension within      *)
(* ShapeSlack of the expected one.                                         *)
(***************************************************************************)
\* ExampleC cut or padded (with ones) to m x n
ShapedC(m, n) ==
    [i \in 0..(m - 1) |-> [j \in 0..(n - 1) |->
        IF i < 6 /\ j < 6 THEN ExampleC[i][j] ELSE 1]]

\* DenseT(0) cut or padded (with ones) to r x c
ShapedT(r, c) ==
    [i \in 0..(r - 1) |-> [j \in 0..(c - 1) |->
        IF i < 3 /\ j < 3 THEN DenseT(0)[i][j] ELSE 1]]

ShapedCalls ==
    {StressCall(ShapedT(r, c)) :
        r \in (3 - ShapeSlack)..(3 + ShapeSlack), c \in (3 - ShapeSlack)..(3 + ShapeSlack)}
    \cup {WeakformCall([grad |-> Scale(2, DenseT(0))],
                       [grad |-> Scale(2, UnitT(0, 1, 1))], [h |-> 0])}

InitShape ==
    \E m \in (6 - ShapeSlack)..(6 + ShapeSlack), n \in (6 - ShapeSlack)..(6 + ShapeSlack),
       call \in ShapedCalls :
        Start(ShapedC(m, n), Single(call), NoLin)

SpecShape == InitShape /\ [][Next]_vars

(***************************************************************************)
(* Properties.                                                             *)
(***************************************************************************)
Returned(t, f) == pc[t] = "done" /\ fn[t] = f

IsSymmetric(X) == \A i \in 0..2, j \in 0..2 : X[i][j] = X[j][i]

IsDiagonal(K) == \A i \in 0..5, j \in 0..5 : i # j => K[i][j] = 0

\* the Voigt index k(i, j): (0,0)->0, (1,1)->1, (2,2)->2, (1,2)->3, (0,2)->4, (0,1)->5
VoigtIndex(i, j) == IF i = j THEN i ELSE 6 - i - j

\* e = [T00, T11, T22, 2*T12, 2*T02, 2*T01]
EngineeringStrain(X) ==
    [k \in 0..5 |->
        CASE k = 0 -> X[0][0] [] k = 1 -> X[1][1] [] k = 2 -> X[2][2]
          [] k = 3 -> 2 * X[1][2] [] k = 4 -> 2 * X[0][2] [] k = 5 -> 2 * X[0][1]]

\* row k of K times e
RowTimes(K, e, k) ==
    K[k][0] * e[0] + K[k][1] * e[1] + K[k][2] * e[2]
        + K[k][3] * e[3] + K[k][4] * e[4] + K[k][5] * e[5]

\* sum over i, j of A[i][j] * B[i][j]
DoubleContraction(A, B) ==
    A[0][0] * B[0][0] + A[0][1] * B[0][1] + A[0][2] * B[0][2]
        + A[1][0] * B[1][0] + A[1][1] * B[1][1] + A[1][2] * B[1][2]
        + A[2][0] * B[2][0] + A[2][1] * B[2][1] + A[2][2] * B[2][2]

\* C1: the stress function returns S with S[i][j] = (C e)[k(i, j)], e the
\* engineering strain of T (shear doubled on the way in, stress shear neither
\* halved nor doubled on the way out), for every C and every T.
C1_VoigtStress ==
    \A t \in DOMAIN pc :
        Returned(t, "stress") =>
            \A i \in 0..2, j \in 0..2 :
                ret[t][i][j] = RowTimes(C, EngineeringStrain(T[t]), VoigtIndex(i, j))

\* an unsymmetric C and an unsymmetric T with shear gave a nonzero shear stress
C1_Witness ==
    \E t \in DOMAIN pc :
        /\ Returned(t, "stress")
        /\ C[3][0] # C[0][3]
        /\ T[t][1][2] # T[t][2][1]
        /\ T[t][1][2] # 0
        /\ ret[t][1][2] # 0

\* C2: the returned stress tensor is exactly symmetric, whether or not C or T is.
C2_SymmetricStress ==
    \A t \in DOMAIN pc : Returned(t, "stress") => IsSymmetric(ret[t])

\* neither C nor T is symmetric and the stress has distinct shear components
C2_Witness ==
    \E t \in DOMAIN pc :
        /\ Returned(t, "stress")
        /\ \E i \in 0..5, j \in 0..5 : C[i][j] # C[j][i]
        /\ ~IsSymmetric(T[t])
        /\ ret[t][0][1] # ret[t][0][2]
        /\ ret[t][0][2] # ret[t][1][2]

\* C3: weakform(u, v, w) returns the double contraction of stress(sym_grad(u))
\* with sym_grad(v): the stress function is applied to the trial gradient, and
\* the value is the same for every context w.
C3_WeakformContraction ==
    \A t \in DOMAIN pc :
        Returned(t, "weakform") =>
            ret[t] = DoubleContraction(stress_strain_relation(C, sym_grad(u[t])),
                                       sym_grad(v[t]))

\* a call where exchanging trial and test would have changed the value
C3_Witness ==
    \E t \in DOMAIN pc :
        /\ Returned(t, "weakform")
        /\ u[t] # v[t]
        /\ w[t].h = 1
        /\ ret[t] # 0
        /\ ret[t] # DoubleContraction(stress_strain_relation(C, sym_grad(v[t])),
                                      sym_grad(u[t]))

\* T has exactly one nonzero entry, the off-diagonal T[i][j]
PureShear(X, i, j) ==
    /\ i # j
    /\ X[i][j] # 0
    /\ \A p \in 0..2, q \in 0..2 : <<p, q>> # <<i, j>> => X[p][q] = 0

\* C5 as stated: for diagonal C and a pure shear T (only T[i][j] nonzero), only
\* the entry (i, j) of the stress is nonzero and it is C[k][k] * T[i][j].
C5_Original ==
    \A t \in DOMAIN pc :
        (Returned(t, "stress") /\ IsDiagonal(C)) =>
            \A i \in 0..2, j \in 0..2 :
                PureShear(T[t], i, j) =>
                    /\ ret[t][i][j] = C[VoigtIndex(i, j)][VoigtIndex(i, j)] * T[t][i][j]
                    /\ \A p \in 0..2, q \in 0..2 :
                           <<p, q>> # <<i, j>> => ret[t][p][q] = 0

\* C5 as amended: for diagonal C and a pure shear T with only T[i][j] nonzero,
\* if i < j the stress has S[i][j] = S[j][i] = 2 * C[k][k] * T[i][j] and every
\* other entry zero; if i > j (an entry the function never reads) the stress
\* is zero.
C5_DiagonalShear ==
    \A t \in DOMAIN pc :
        (Returned(t, "stress") /\ IsDiagonal(C)) =>
            \A i \in 0..2, j \in 0..2 :
                PureShear(T[t], i, j) =>
                    \A p \in 0..2, q \in 0..2 :
                        ret[t][p][q] =
                            IF i < j /\ {p, q} = {i, j}
                            THEN 2 * C[VoigtIndex(i, j)][VoigtIndex(i, j)] * T[t][i][j]
                            ELSE 0

\* a diagonal C with distinct entries, a pure shear above the diagonal, and a
\* nonzero shear stress
C5_Witness ==
    \E t \in DOMAIN pc :
        /\ Returned(t, "stress")
        /\ IsDiagonal(C)
        /\ C[3][3] # C[5][5]
        /\ PureShear(T[t], 0, 1)
        /\ ret[t][0][1] # 0

\* C6: with C = diag(1, 1, 1, 0.5, 0.5, 0.5) the stress function returns T for
\* every symmetric T (C is carried times 2, so the stress is 2 * T).
C6_RoundTrip ==
    \A t \in DOMAIN pc :
        (Returned(t, "stress") /\ C = VoigtIdentityC /\ IsSymmetric(T[t])) =>
            \A i \in 0..2, j \in 0..2 : ret[t][i][j] = 2 * T[t][i][j]

\* a symmetric T with all three shears nonzero and not all alike, and the
\* stress returned for it
C6_Witness ==
    \E t \in DOMAIN pc :
        /\ Returned(t, "stress")
        /\ C = VoigtIdentityC
        /\ IsSymmetric(T[t])
        /\ T[t][0][1] # 0 /\ T[t][0][2] # 0 /\ T[t][1][2] # 0
        /\ T[t][0][1] # T[t][1][2]
        /\ T[t][0][0] # T[t][1][1]
        /\ ret[t][1][2] # 0 /\ ret[t][1][2] # ret[t][0][1]

\* C7: stress(a*T1 + b*T2) = a*stress(T1) + b*stress(T2), entry by entry, for
\* every C, scalars a, b and symmetric T1, T2.
C7_Linearity ==
    \A t \in DOMAIN pc :
        (Returned(t, "stress") /\ lin.on) =>
            /\ T[t] = Plus(Scale(lin.a, lin.T1), Scale(lin.b, lin.T2))
            /\ IsSymmetric(lin.T1) /\ IsSymmetric(lin.T2)
            /\ \A i \in 0..2, j \in 0..2 :
                   ret[t][i][j] =
                       lin.a * stress_strain_relation(C, lin.T1)[i][j]
                           + lin.b * stress_strain_relation(C, lin.T2)[i][j]

\* a proper combination (a + b # 1, both nonzero) of different tensors with
\* shear, under an unsymmetric C
C7_Witness ==
    \E t \in DOMAIN pc :
        /\ Returned(t, "stress")
        /\ lin.on
        /\ lin.a # 0 /\ lin.b # 0 /\ lin.a + lin.b # 1
        /\ lin.T1 # lin.T2
        /\ lin.T1[1][2] # 0
        /\ C[0][3] # C[3][0]
        /\ ret[t][1][2] # 0

\* C8: for positive-definite C and trial = test, the weak form's value
\* ddot(stress(E), E) is >= 0 for every symmetric gradient E.
C8_EnergyNonNegative ==
    \A t \in DOMAIN pc :
        (Returned(t, "weakform") /\ u[t] = v[t] /\ C \in PositiveDefiniteStiffness) =>
            ret[t] >= 0

\* the example C, a gradient with normal and shear parts of both signs, and a
\* positive energy
C8_Witness ==
    \E t \in DOMAIN pc :
        /\ Returned(t, "weakform")
        /\ u[t] = v[t]
        /\ C = ExampleC
        /\ sym_grad(u[t])[0][0] < 0 /\ sym_grad(u[t])[1][1] > 0
        /\ sym_grad(u[t])[0][1] < 0 /\ sym_grad(u[t])[1][2] > 0
        /\ ret[t] > 0

\* C10: with the example C (times 10) and T = diag(1, 0, 0) the stress vector
\* is [10, 2, 3, 0, 0, 0] and the stress tensor diag(10, 2, 3).
C10_Example ==
    \A t \in DOMAIN pc :
        (Returned(t, "stress") /\ C = ExampleC /\ T[t] = UnitT(0, 0, 1)) =>
            /\ stress_vector[t] = Array1(<<10, 2, 3, 0, 0, 0>>)
            /\ \A i \in 0..2, j \in 0..2 :
                   ret[t][i][j] =
                       IF i # j THEN 0 ELSE IF i = 0 THEN 10 ELSE IF i = 1 THEN 2 ELSE 3

\* the example scenario was evaluated
C10_Witness ==
    \E t \in DOMAIN pc :
        /\ Returned(t, "stress")
        /\ C = ExampleC
        /\ T[t] = UnitT(0, 0, 1)
        /\ ret[t][2][2] = 3

\* C is 6x6 and the tensor X is 3x3
WellShaped(K, X) == NRows(K) = 6 /\ NCols(K) = 6 /\ NRows(X) = 3 /\ NCols(X) = 3

\* C4: when C is not 6x6 or T is not 3x3, the evaluation ends in an error and
\* never returns a stress tensor.
C4_ShapeRejected ==
    \A t \in DOMAIN pc :
        (fn[t] = "stress" /\ ~WellShaped(C, T[t])) => pc[t] # "done"

\* what a call of callable f returns when it runs alone: K the captured
\* matrix, X the tensor passed to the stress function, a and b the trial and
\* test fields passed to the weak form
ResultAlone(K, f, X, a, b) ==
    IF f = "stress"
    THEN stress_strain_relation(K, X)
    ELSE DoubleContraction(stress_strain_relation(K, sym_grad(a)), sym_grad(b))

\* C9: no step of any evaluation writes to the captured C or to an argument of
\* a call, and under every interleaving each call returns what it returns
\* when run alone.
C9_PureAndInterleavingIndependent ==
    [][/\ C' = C
       /\ u' = u /\ v' = v /\ w' = w
       /\ \A t \in DOMAIN pc : fn[t] = "stress" => T'[t] = T[t]
       /\ \A t \in DOMAIN pc :
              pc'[t] = "done" =>
                  ret'[t] = ResultAlone(C, fn[t], T[t], u[t], v[t])]_vars

\* one call has returned while another, on a different tensor and from the
\* other callable, is between its matrix product and its tensor assembly
C9_Witness ==
    \E t1 \in DOMAIN pc, t2 \in DOMAIN pc :
        /\ t1 # t2
        /\ Returned(t1, "stress")
        /\ fn[t2] = "weakform" /\ pc[t2] = "tensor"
        /\ T[t1] # T[t2]
        /\ ret[t1] = ResultAlone(C, "stress", T[t1], u[t1], v[t1])

====
